---- MODULE Spec2Model ----
(***************************************************************************)
(* Exam-session lifecycle of src/app.py: the Flask session entries of one  *)
(* client (mode, start time, selected question ids, admin flag), the       *)
(* Exam / Question / Answer tables, and the request handlers that read     *)
(* and write them.                                                         *)
(*                                                                         *)
(* Strings are sequences of one-character strings, so that strip() and     *)
(* lower() are computed rather than assumed.  Time is counted in ticks of  *)
(* 1/TicksPerSecond second, so that int() of an elapsed time truncates.    *)
(* pass_rate is kept as the percentage the administrator entered           *)
(* (pass_rate = percent / 100.0).                                          *)
(***************************************************************************)
EXTENDS Integers, Sequences, FiniteSets, TLC

VARIABLES
    exam,          \* Exam table: id -> [duration, total_questions, pass_rate]
    question,      \* Question table: id -> [exam_id, correct_answer]
    answer,        \* Answer table, in insertion order: rows
                   \*   [student_name, exam_id, question_id, selected_answer]
    mode,          \* session["exam_{e}_mode_{s}"]:       <<e, s>> -> "exam" | "study"
    start_time,    \* session["exam_{e}_start_time_{s}"]: <<e, s>> -> ticks
    question_ids,  \* session["exam_{e}_question_ids"]:   e -> sequence of ids
    admin,         \* session["admin"] is True
    clock,         \* the latest reading of datetime.now(), in ticks
    request,       \* the request handled last: [op, exam_id, student_name],
                   \*   with its other inputs and, for a submission, the
                   \*   session entries it found
    response,      \* what that request returned
    steps,         \* number of requests handled so far
    probe,         \* inputs and result of one is_pass evaluation (SpecPass)
    csv,           \* one question on its way through export and ingestion
                   \*   (SpecCsv)
    txn            \* the database transactions of two submissions handled at
                   \*   the same time (SpecRace)

vars == <<exam, question, answer, mode, start_time, question_ids, admin,
          clock, request, response, steps, probe, csv, txn>>

\* ---------------------------------------------------------------- bounds

MaxSteps == 4
TicksPerSecond == 2
MaxTotal == 25

\* ------------------------------------------------------------- constants

SecondsPerMinute == 60
DefaultMode == "exam"
\* The sentinel of lines 180 and 214 (three non-ASCII characters, none of them
\* a space or a cased letter), written here as three placeholder characters.
Unanswered == <<"m", "i", "k">>

\* An optional value: <<>> is None, <<x>> is x.
None == <<>>
Some(x) == <<x>>

\* ---------------------------------------------------------------- strings

IsSpace(c) == c = " "

RECURSIVE lstrip(_)
lstrip(s) == IF s # <<>> /\ IsSpace(Head(s)) THEN lstrip(Tail(s)) ELSE s

RECURSIVE rstrip(_)
rstrip(s) ==
    IF s # <<>> /\ IsSpace(s[Len(s)]) THEN rstrip(SubSeq(s, 1, Len(s) - 1)) ELSE s

strip_noop(s) == s
strip(s) == lstrip(rstrip(s))

LowerChar(c) == CASE c = "A" -> "a" [] c = "B" -> "b" [] OTHER -> c

lower_noop(s) == s
lower(s) == [i \in 1..Len(s) |-> LowerChar(s[i])]

\* ----------------------------------------------------------- the database

ExamIds == {1, 2}
QuestionIds == {1, 2, 3}

\* The question bank as uploaded: questions 1 and 2 belong to exam 1,
\* question 3 to exam 2.
QuestionBank ==
    (1 :> [exam_id |-> 1, correct_answer |-> <<"B">>]) @@
    (2 :> [exam_id |-> 1, correct_answer |-> <<"a">>]) @@
    (3 :> [exam_id |-> 2, correct_answer |-> <<"A">>])

Restrict(f, S) == [x \in S |-> f[x]]

\* Question.query.filter_by(exam_id=e).all()
QuestionsOf(e) == {q \in DOMAIN question : question[q].exam_id = e}

\* Answer.query.filter_by(student_name=s, exam_id=e).all(), as row positions
RowsOf(tbl, s, e) ==
    {i \in 1..Len(tbl) : tbl[i].student_name = s /\ tbl[i].exam_id = e}

\* Answer.query.filter_by(student_name=s, exam_id=e).delete()
DeleteRows(tbl, s, e) ==
    SelectSeq(tbl, LAMBDA r : ~(r.student_name = s /\ r.exam_id = e))

\* ------------------------------------------------------------ the inputs

RawNames == {<<"a">>, <<" ", "a">>, <<"b">>, <<>>}
Modes == {"exam", "study"}

\* Clock readings, in ticks: the start, one and a half seconds later, and
\* a second and a half past one minute.
Times == {0,
          TicksPerSecond + 1,
          (SecondsPerMinute + 1) * TicksPerSecond + 1}

\* What a client can send as the answer to one question.
SubmittedValues == {<<" ", "b">>, <<"a">>, Unanswered}

Range(f) == {f[x] : x \in DOMAIN f}

\* The "answers" object of a submission: question id -> submitted string.
\* Line 180 reads it only at the stored question ids, so the other keys a
\* client may send are left out.
AnswerMaps(qids) == UNION {[S -> SubmittedValues] : S \in SUBSET Range(qids)}

Min(a, b) == IF a <= b THEN a ELSE b

EmptyMap == [x \in {} |-> 0]
Without(f, k) == Restrict(f, DOMAIN f \ {k})
Put(f, k, v) == [x \in DOMAIN f \cup {k} |-> IF x = k THEN v ELSE f[x]]

\* dict.get(key, default)
Get(f, k, default) == IF k \in DOMAIN f THEN f[k] ELSE default

NoRequest == [op |-> "none", exam_id |-> 0, student_name |-> <<>>]
NoResponse == [status |-> "none"]
NoProbe == [score |-> 0, total |-> 0, pass_rate |-> 0, verdict |-> None]
NoCsv == [stage |-> "none"]
NoTxn == [isolation |-> "none"]

\* One request is handled: it is counted and remembered.
Handled(op, e, s) ==
    /\ steps < MaxSteps
    /\ steps' = steps + 1
    /\ request' = [op |-> op, exam_id |-> e, student_name |-> s]

\* ------------------------------------------------------------------ Init

\* Two databases as admin_upload leaves them (lines 284-310: duration and
\* total_questions are required, pass_rate is a percentage).  In the first,
\* exam 1 asks for fewer questions than it has and exam 2 for as many as it
\* has; in the second, exam 1 asks for more than it has and exam 2 was
\* uploaded without questions.
Catalogues ==
    {[exam |-> (1 :> [duration |-> 1, total_questions |-> 1, pass_rate |-> 50]) @@
               (2 :> [duration |-> 1, total_questions |-> 1, pass_rate |-> 60]),
      question |-> QuestionBank],
     [exam |-> (1 :> [duration |-> 1, total_questions |-> 3, pass_rate |-> 50]) @@
               (2 :> [duration |-> 1, total_questions |-> 1, pass_rate |-> 60]),
      question |-> Restrict(QuestionBank, {1, 2})]}

\* The database after the administrator uploaded two exams; the session of a
\* client that has not made a request yet.
Init ==
    /\ \E c \in Catalogues : exam = c.exam /\ question = c.question
    /\ answer = <<>>
    /\ mode = EmptyMap
    /\ start_time = EmptyMap
    /\ question_ids = EmptyMap
    /\ admin = FALSE
    /\ clock = 0
    /\ request = NoRequest
    /\ response = NoResponse
    /\ steps = 0
    /\ probe = NoProbe
    /\ csv = NoCsv
    /\ txn = NoTxn

\* ------------------------------------------------------------- start_exam

\* lines 101-106: int() truncates the elapsed time to whole seconds
remaining_seconds_nofloor(duration, m, start, now) ==
    IF m = "exam"
    THEN Some(duration * SecondsPerMinute - ((now - start) \div TicksPerSecond))
    ELSE None
remaining_seconds(duration, m, start, now) ==
    IF m = "exam"
    THEN LET r == duration * SecondsPerMinute - ((now - start) \div TicksPerSecond)
         IN  Some(IF r < 0 THEN 0 ELSE r)
    ELSE None

\* lines 95-97: the start time is written only when the key is absent
StampStartTime_always(st, key, now) == Put(st, key, now)
StampStartTime(st, key, now) ==
    IF key \in DOMAIN st THEN st ELSE Put(st, key, now)

\* line 94: the mode is written on every call
StampMode(md, key, m) == Put(md, key, m)

\* The clock is read at line 97 when the key is absent and at line 102 in
\* exam mode; both readings of one request fall in the same tick, and
\* readings never decrease.  A request that reads no clock leaves it alone.
start_exam(raw_name, e, m, now) ==
    LET student_name == strip(raw_name)
        key == <<e, student_name>>
    IN  /\ Handled("start_exam", e, student_name)
        /\ IF student_name = <<>> \/ e \notin DOMAIN exam
           THEN /\ now = clock
                /\ response' = [status |-> "redirect"]
                /\ UNCHANGED <<mode, start_time, clock>>
           ELSE /\ clock <= now
                /\ (key \in DOMAIN start_time /\ m # "exam") => now = clock
                /\ mode' = StampMode(mode, key, m)
                /\ start_time' = StampStartTime(start_time, key, now)
                /\ clock' = now
                /\ response' = [status |-> "ok",
                                mode |-> m,
                                remaining_seconds |->
                                    remaining_seconds(exam[e].duration, m,
                                                      start_time'[key], now)]
        /\ UNCHANGED <<exam, question, answer, question_ids, admin,
                       probe, csv, txn>>

\* ---------------------------------------------------- load_exam_questions

\* random.sample(population, k): every sequence of k distinct members
Sample(population, k) ==
    {s \in [1..k -> population] : \A i, j \in 1..k : i # j => s[i] # s[j]}

\* line 125: the population and the size of the sample
SamplePopulation_all(e) == DOMAIN question
SamplePopulation(e) == QuestionsOf(e)
SampleSize(e) == Min(exam[e].total_questions, Cardinality(QuestionsOf(e)))

\* The mode is looked up under the name as sent (line 119 does not strip it).
load_exam_questions(e, raw_name) ==
    /\ Handled("load_exam_questions", e, raw_name)
    /\ IF e \notin DOMAIN exam
       THEN /\ response' = [status |-> "ok", questions |-> <<>>,
                            effective_total |-> 0, mode |-> None]
            /\ UNCHANGED question_ids
       ELSE IF SampleSize(e) < 0
       THEN /\ response' = [status |-> "500"]
            /\ UNCHANGED question_ids
       ELSE \E selected \in Sample(SamplePopulation(e), SampleSize(e)) :
            /\ question_ids' = Put(question_ids, e, selected)
            /\ response' = [status |-> "ok", questions |-> selected,
                            effective_total |-> Len(selected),
                            mode |-> Some(Get(mode, <<e, raw_name>>, DefaultMode))]
    /\ UNCHANGED <<exam, question, answer, mode, start_time, admin, clock,
                   probe, csv, txn>>

\* ----------------------------------------------------------- check_answer

\* lines 153-154 and 214: equal after strip() and lower()
SameAnswer(selected, correct) == lower(strip(selected)) = lower(strip(correct))

check_answer(e, q, selected) ==
    /\ steps < MaxSteps
    /\ steps' = steps + 1
    /\ request' = [op |-> "check_answer", exam_id |-> e, student_name |-> <<>>,
                   question_id |-> q, selected_answer |-> selected]
    /\ IF e \notin DOMAIN exam \/ q \notin DOMAIN question
          \/ question[q].exam_id # e
       THEN response' = [status |-> "400"]
       ELSE LET correct == strip(question[q].correct_answer)
                is_correct == SameAnswer(selected, correct)
            IN  response' = [status |-> "ok",
                             is_correct |-> is_correct,
                             correct_answer |->
                                 IF is_correct THEN None ELSE Some(correct)]
    /\ UNCHANGED <<exam, question, answer, mode, start_time, question_ids,
                   admin, clock, probe, csv, txn>>

\* ------------------------------------------------------------ submit_exam

\* lines 179-186: one row per stored question id
NewRows(student_name, e, qids, answers) ==
    [i \in 1..Len(qids) |->
        [student_name |-> student_name, exam_id |-> e, question_id |-> qids[i],
         selected_answer |-> Get(answers, qids[i], Unanswered)]]

\* lines 177-187: the Answer table after a submission stored as mode m
RecordAnswers_append(tbl, m, student_name, e, qids, answers) ==
    IF m # "study" THEN tbl \o NewRows(student_name, e, qids, answers) ELSE tbl
RecordAnswers_never(tbl, m, student_name, e, qids, answers) == tbl
RecordAnswers_always(tbl, m, student_name, e, qids, answers) ==
    DeleteRows(tbl, student_name, e) \o NewRows(student_name, e, qids, answers)
RecordAnswers(tbl, m, student_name, e, qids, answers) ==
    IF m # "study"
    THEN DeleteRows(tbl, student_name, e) \o NewRows(student_name, e, qids, answers)
    ELSE tbl

\* lines 190-192: session.pop(key, None)
ClearAttempt_keep(f, key) == f
ClearAttempt(f, key) == Without(f, key)

\* line 170: "if not question_ids"
NoActiveAttempt_never(qids) == FALSE
NoActiveAttempt(qids) == qids = <<>>

submit_exam(raw_name, e, answers) ==
    LET student_name == strip(raw_name)
        key == <<e, student_name>>
        qids == Get(question_ids, e, <<>>)
    IN  /\ steps < MaxSteps
        /\ steps' = steps + 1
        /\ request' = [op |-> "submit_exam", exam_id |-> e,
                       student_name |-> student_name, answers |-> answers,
                       found |-> [start_time |-> IF key \in DOMAIN start_time
                                                 THEN Some(start_time[key])
                                                 ELSE None,
                                  mode |-> IF key \in DOMAIN mode
                                           THEN Some(mode[key]) ELSE None]]
        /\ IF NoActiveAttempt(qids)
           THEN /\ response' = [status |-> "error"]
                /\ UNCHANGED <<answer, mode, start_time, question_ids>>
           ELSE /\ answer' = RecordAnswers(answer, Get(mode, key, DefaultMode),
                                           student_name, e, qids, answers)
                /\ start_time' = ClearAttempt(start_time, key)
                /\ question_ids' = ClearAttempt(question_ids, e)
                /\ mode' = ClearAttempt(mode, key)
                /\ response' = [status |-> "ok"]
        /\ UNCHANGED <<exam, question, admin, clock, probe, csv, txn>>

\* ----------------------------------------------------------------- result

\* total * pass_rate of line 67 is a product of binary64 numbers, with
\* pass_rate = percent / 100.0 (line 295).  For whole percentages and totals
\* up to 30 the product differs from the exact total * percent / 100 only
\* when that is a whole number and only upwards, for these (total, percent):
\* 25 * 0.28 = 7.000000000000001 and 25 * 0.56 = 14.000000000000002.
ProductRoundsAbove(total, percent) == <<total, percent>> \in {<<25, 28>>, <<25, 56>>}

\* line 67: score >= total * pass_rate
is_pass(score, total, pass_rate) ==
    IF score * 100 = total * pass_rate
    THEN ~ProductRoundsAbove(total, pass_rate)
    ELSE score * 100 > total * pass_rate

\* line 206: a dict keeps the last row of each question id
AnswerMap(tbl, rows) ==
    [q \in {tbl[i].question_id : i \in rows} |->
        LET last == CHOOSE i \in rows :
                       /\ tbl[i].question_id = q
                       /\ \A j \in rows : tbl[j].question_id = q => j <= i
        IN  tbl[last].selected_answer]

\* line 214
IsCorrect(selected, correct) ==
    selected # Unanswered /\ SameAnswer(selected, correct)

\* line 202: "if not answers"
NoResultFound_never(rows) == FALSE
NoResultFound(rows) == rows = {}

result(raw_name, e) ==
    LET student_name == strip(raw_name)
        rows == RowsOf(answer, student_name, e)
        answer_map == AnswerMap(answer, rows)
        questions == DOMAIN answer_map \cap DOMAIN question
        correct == Cardinality({q \in questions :
                       IsCorrect(answer_map[q], question[q].correct_answer)})
    IN  /\ Handled("result", e, student_name)
        /\ IF NoResultFound(rows)
           THEN response' = [status |-> "redirect"]
           ELSE IF e \notin DOMAIN exam
           THEN response' = [status |-> "500"]
           ELSE response' = [status |-> "ok", total |-> correct,
                             max_score |-> Cardinality(questions),
                             pass |-> is_pass(correct, Cardinality(questions),
                                              exam[e].pass_rate)]
        /\ UNCHANGED <<exam, question, answer, mode, start_time, question_ids,
                       admin, clock, probe, csv, txn>>

\* ------------------------------------------------------------------ admin

require_admin == admin

admin_login(password_ok) ==
    /\ Handled("admin", 0, <<>>)
    /\ admin' = IF password_ok THEN TRUE ELSE admin
    /\ response' = [status |-> "redirect"]
    /\ UNCHANGED <<exam, question, answer, mode, start_time, question_ids,
                   clock, probe, csv, txn>>

admin_logout ==
    /\ Handled("admin_logout", 0, <<>>)
    /\ admin' = FALSE
    /\ response' = [status |-> "redirect"]
    /\ UNCHANGED <<exam, question, answer, mode, start_time, question_ids,
                   clock, probe, csv, txn>>

\* lines 349-355: no require_admin() check
delete_exam(e) ==
    /\ Handled("delete_exam", e, <<>>)
    /\ IF e \notin DOMAIN exam
       THEN /\ response' = [status |-> "404"]
            /\ UNCHANGED <<exam, question, answer>>
       ELSE /\ question' = Restrict(question, DOMAIN question \ QuestionsOf(e))
            /\ answer' = SelectSeq(answer, LAMBDA r : r.exam_id # e)
            /\ exam' = Without(exam, e)
            /\ response' = [status |-> "redirect"]
    /\ UNCHANGED <<mode, start_time, question_ids, admin, clock,
                   probe, csv, txn>>

delete_answer(e, raw_name) ==
    LET student_name == strip(raw_name)
    IN  /\ Handled("delete_answer", e, student_name)
        /\ IF ~require_admin \/ student_name = <<>>
           THEN UNCHANGED answer
           ELSE answer' = DeleteRows(answer, student_name, e)
        /\ response' = [status |-> "redirect"]
        /\ UNCHANGED <<exam, question, mode, start_time, question_ids, admin,
                       clock, probe, csv, txn>>

\* ------------------------------------------------------------------ Next

Next ==
    \/ \E n \in RawNames, e \in ExamIds, m \in Modes, now \in Times :
         start_exam(n, e, m, now)
    \/ \E e \in ExamIds, n \in RawNames : load_exam_questions(e, n)
    \/ \E e \in ExamIds, q \in QuestionIds, v \in SubmittedValues :
         check_answer(e, q, v)
    \/ \E n \in RawNames, e \in ExamIds :
         \E a \in AnswerMaps(Get(question_ids, e, <<>>)) : submit_exam(n, e, a)
    \/ \E n \in RawNames, e \in ExamIds : result(n, e)
    \/ \E ok \in BOOLEAN : admin_login(ok)
    \/ admin_logout
    \/ \E e \in ExamIds : delete_exam(e)
    \/ \E e \in ExamIds, n \in RawNames : delete_answer(e, n)

Spec == Init /\ [][Next]_vars

\* ------------------------------------------- is_pass as a pure function

PassRates == {0, 28, 50, 60, 100}

InitPass ==
    /\ \E c \in Catalogues : exam = c.exam /\ question = c.question
    /\ answer = <<>>
    /\ mode = EmptyMap
    /\ start_time = EmptyMap
    /\ question_ids = EmptyMap
    /\ admin = FALSE
    /\ clock = 0
    /\ request = NoRequest
    /\ response = NoResponse
    /\ steps = 0
    /\ \E total \in 0..MaxTotal, score \in 0..MaxTotal, rate \in PassRates :
         /\ score <= total
         /\ probe = [score |-> score, total |-> total, pass_rate |-> rate,
                     verdict |-> None]
    /\ csv = NoCsv
    /\ txn = NoTxn

Judge ==
    /\ probe.verdict = None
    /\ probe' = [probe EXCEPT
                   !.verdict = Some(is_pass(probe.score, probe.total, probe.pass_rate))]
    /\ UNCHANGED <<exam, question, answer, mode, start_time, question_ids,
                   admin, clock, request, response, steps, csv, txn>>

NextPass == Judge

SpecPass == InitPass /\ [][NextPass]_vars

\* ----------------------------- two submissions handled at the same time

\* Each request runs lines 178-187 as one database transaction of its own
\* connection: the DELETE of line 178 is sent at once, the INSERTs of lines
\* 181-186 are flushed by the commit of line 187.  What one transaction sees
\* of the other is decided by the database DATABASE_URL names (line 18):
\*   "serial"         - one writer at a time, from its first write to its
\*                      commit (SQLite, the default);
\*   "read_committed" - a statement sees the rows committed before it began
\*                      and waits only for rows another transaction has
\*                      deleted and not yet committed.
Isolations == {"serial", "read_committed"}

Txns == {1, 2}

RaceName == <<"a">>
RaceExam == 1

\* The client started an exam-mode attempt and loaded its questions, perhaps
\* after an earlier submission of the same (student, exam); two submissions
\* carrying that session are now in flight.
InitRace ==
    /\ \E c \in Catalogues : exam = c.exam /\ question = c.question
    /\ mode = StampMode(EmptyMap, <<RaceExam, RaceName>>, "exam")
    /\ start_time = StampStartTime(EmptyMap, <<RaceExam, RaceName>>, 0)
    /\ admin = FALSE
    /\ clock = 0
    /\ steps = 2
    /\ probe = NoProbe
    /\ csv = NoCsv
    /\ \E selected \in Sample(SamplePopulation(RaceExam), SampleSize(RaceExam)) :
         /\ question_ids = Put(EmptyMap, RaceExam, selected)
         /\ request = [op |-> "load_exam_questions", exam_id |-> RaceExam,
                       student_name |-> RaceName]
         /\ response = [status |-> "ok", questions |-> selected,
                        effective_total |-> Len(selected),
                        mode |-> Some("exam")]
         /\ answer \in {<<>>, NewRows(RaceName, RaceExam, selected, EmptyMap)}
         /\ \E iso \in Isolations, a1, a2 \in AnswerMaps(selected) :
              txn = [isolation |-> iso,
                     question_ids |-> selected,
                     req |-> [i \in Txns |->
                                [pc |-> "begin",
                                 answers |-> IF i = 1 THEN a1 ELSE a2,
                                 deleted |-> 0]]]

\* line 178: the DELETE, which waits while the other transaction holds the
\* write lock (serial) or has deleted rows it has not committed
\* (read_committed)
TxnDelete(i) ==
    /\ txn.req[i].pc = "begin"
    /\ \A j \in Txns \ {i} :
          txn.req[j].pc = "deleted" =>
             /\ txn.isolation # "serial"
             /\ txn.req[j].deleted = 0
    /\ txn' = [txn EXCEPT
                 !.req[i].pc = "deleted",
                 !.req[i].deleted =
                     Cardinality(RowsOf(answer, RaceName, RaceExam))]
    /\ UNCHANGED <<exam, question, answer, mode, start_time, question_ids,
                   admin, clock, request, response, steps, probe, csv>>

\* lines 179-194: the INSERTs and the commit, which make the transaction's
\* DELETE and its new rows visible together; the session entries are popped
\* and the response is sent
TxnCommit(i) ==
    /\ txn.req[i].pc = "deleted"
    /\ answer' = (IF txn.req[i].deleted > 0
                  THEN DeleteRows(answer, RaceName, RaceExam)
                  ELSE answer)
                 \o NewRows(RaceName, RaceExam, txn.question_ids,
                            txn.req[i].answers)
    /\ txn' = [txn EXCEPT !.req[i].pc = "done"]
    /\ start_time' = ClearAttempt(start_time, <<RaceExam, RaceName>>)
    /\ question_ids' = ClearAttempt(question_ids, RaceExam)
    /\ mode' = ClearAttempt(mode, <<RaceExam, RaceName>>)
    /\ steps' = steps + 1
    /\ request' = [op |-> "submit_exam", exam_id |-> RaceExam,
                   student_name |-> RaceName, answers |-> txn.req[i].answers,
                   found |-> [start_time |-> Some(0), mode |-> Some("exam")]]
    /\ response' = [status |-> "ok"]
    /\ UNCHANGED <<exam, question, admin, clock, probe, csv>>

NextRace ==
    \/ \E i \in Txns : TxnDelete(i)
    \/ \E i \in Txns : TxnCommit(i)

SpecRace == InitRace /\ [][NextRace]_vars

\* ------------------------------------------- export and ingestion of CSV

\* str.split(sep) for a one-character separator
RECURSIVE Split(_, _)
Split(s, sep) ==
    IF \A i \in 1..Len(s) : s[i] # sep
    THEN <<s>>
    ELSE LET i == CHOOSE k \in 1..Len(s) :
                     s[k] = sep /\ \A j \in 1..(k - 1) : s[j] # sep
         IN  <<SubSeq(s, 1, i - 1)>> \o Split(SubSeq(s, i + 1, Len(s)), sep)

\* sep.join(parts)
RECURSIVE Join(_, _)
Join(sep, parts) ==
    IF parts = <<>> THEN <<>>
    ELSE IF Len(parts) = 1 THEN parts[1]
    ELSE parts[1] \o sep \o Join(sep, Tail(parts))

\* str(q.id), for the ids of the model
IdText(id) == <<(<<"1", "2", "3">>)[id]>>

\* lines 327-332: the header row (four titles, written here in placeholder
\* characters)
Header == << <<"i", "d">>, <<"t">>, <<"c">>, <<"k">> >>

\* lines 334-339: the row written for one question
ExportRow(q) ==
    <<IdText(q.id),
      q.question_text,
      Join(<<" ", "|", " ">>, Split(q.choices, "|")),
      q.correct_answer>>

\* lines 323-346: the file, as the byte-order mark and the rows csv.writer
\* wrote (csv.reader gives back the cells csv.writer was given)
export_exam_csv(questions) ==
    [bom |-> TRUE,
     rows |-> <<Header>> \o [i \in 1..Len(questions) |-> ExportRow(questions[i])]]

\* line 54: rows that are too short or blank are skipped
SkippedRow(row) == Len(row) < 2 \/ \A i \in 1..Len(row) : strip(row[i]) = <<>>

\* lines 56-61: the question made of one row
IngestRow(row, e) ==
    [exam_id |-> e,
     question_text |-> strip(row[1]),
     choices |-> Join(<<"|">>,
                      SelectSeq([i \in 1..(Len(row) - 2) |-> strip(row[i + 1])],
                                LAMBDA c : c # <<>>)),
     correct_answer |-> strip(row[Len(row)])]

\* lines 48-63: utf-8-sig drops the byte-order mark, next(reader) the first
\* row
load_questions_from_csv_obj(file, e) ==
    LET kept == SelectSeq(Tail(file.rows), LAMBDA row : ~SkippedRow(row))
    IN  [i \in 1..Len(kept) |-> IngestRow(kept[i], e)]

\* Question texts, choices and correct answers as ingestion stores them:
\* stripped, the choices joined by "|".
Texts == {<<"Q">>, <<"Q", "?">>}
Choices == {<<"A">>, <<"B">>, <<"a", " ", "b">>}
MaxChoices == 2
ChoiceLists == UNION {[1..n -> Choices] : n \in 1..MaxChoices}

InitCsv ==
    /\ \E c \in Catalogues : exam = c.exam /\ question = c.question
    /\ answer = <<>>
    /\ mode = EmptyMap
    /\ start_time = EmptyMap
    /\ question_ids = EmptyMap
    /\ admin = FALSE
    /\ clock = 0
    /\ request = NoRequest
    /\ response = NoResponse
    /\ steps = 0
    /\ probe = NoProbe
    /\ txn = NoTxn
    /\ \E id \in QuestionIds, text \in Texts, list \in ChoiceLists :
         \E right \in Range(list) :
            csv = [stage |-> "stored",
                   bank |-> <<[id |-> id, exam_id |-> 1, question_text |-> text,
                               choices |-> Join(<<"|">>, list),
                               correct_answer |-> right]>>]

\* GET /admin/export/<exam_id>
ExportBank ==
    /\ csv.stage = "stored"
    /\ csv' = [stage |-> "exported", bank |-> csv.bank,
               file |-> export_exam_csv(csv.bank)]
    /\ UNCHANGED <<exam, question, answer, mode, start_time, question_ids,
                   admin, clock, request, response, steps, probe, txn>>

\* The exported file is uploaded as the question bank of a new exam.
IngestBank ==
    /\ csv.stage = "exported"
    /\ csv' = [stage |-> "ingested", bank |-> csv.bank, file |-> csv.file,
               ingested |-> load_questions_from_csv_obj(csv.file, 2)]
    /\ UNCHANGED <<exam, question, answer, mode, start_time, question_ids,
                   admin, clock, request, response, steps, probe, txn>>

NextCsv == ExportBank \/ IngestBank

SpecCsv == InitCsv /\ [][NextCsv]_vars

\* ------------------------------------------------------------ properties

Keys == {<<e, strip(n)>> : e \in ExamIds, n \in RawNames}

\* The key of the attempt the last request was about.
RequestKey == <<request.exam_id, request.student_name>>

\* This step handles a request `op` for the attempt `key`.
Handles(op, key) ==
    /\ steps' = steps + 1
    /\ request'.op = op
    /\ <<request'.exam_id, request'.student_name>> = key

\* The last request was `op` and it returned `status`.
Returned(op, status) == request.op = op /\ response.status = status

\* C1: once start has recorded start_timestamp for (exam, student), a later
\* start call for the same (exam, student), at any time and with any mode,
\* leaves it unchanged; only an accepted submission for that (exam, student)
\* removes it.
C1_StartTimestampSticky ==
    [][\A k \in DOMAIN start_time :
          /\ Handles("start_exam", k) =>
                k \in DOMAIN start_time' /\ start_time'[k] = start_time[k]
          /\ (k \notin DOMAIN start_time' \/ start_time'[k] # start_time[k]) =>
                Handles("submit_exam", k) /\ response'.status = "ok"]_vars

\* A start call served at a later time than the recorded start.
C1_Witness ==
    /\ Returned("start_exam", "ok")
    /\ RequestKey \in DOMAIN start_time
    /\ start_time[RequestKey] < clock
    /\ response.mode = "exam"

\* C2: a start call for an (exam, student) whose session already holds a
\* mode leaves the stored mode as it was.
C2_StoredModeKept ==
    [][\A k \in DOMAIN mode :
          Handles("start_exam", k) => k \in DOMAIN mode' /\ mode'[k] = mode[k]]_vars

\* Rows of the Answer table for one (student, exam), as a set of positions.
PairRows(tbl, key) == RowsOf(tbl, key[2], key[1])

\* C3: an accepted exam-mode submission for (student, exam) leaves exactly
\* one Answer row per question id of the sequence the session held, with
\* the submitted value or the sentinel; nothing of an earlier submission
\* remains and the number of rows does not grow.
C3_SubmissionReplaces ==
    [][\A k \in Keys :
          (/\ Handles("submit_exam", k)
           /\ response'.status = "ok"
           /\ Get(mode, k, DefaultMode) = "exam")
          => LET qids == question_ids[k[1]]
                 rows == PairRows(answer', k)
             IN  /\ Cardinality(rows) = Len(qids)
                 /\ \A i \in 1..Len(qids) :
                       \E r \in rows :
                          /\ answer'[r].question_id = qids[i]
                          /\ answer'[r].selected_answer =
                                IF qids[i] \in DOMAIN request'.answers
                                THEN request'.answers[qids[i]]
                                ELSE Unanswered
                 /\ PairRows(answer, k) # {} =>
                       Cardinality(rows) <= Cardinality(PairRows(answer, k))]_vars

\* After an accepted submission that stored rows: one question answered,
\* another left to the sentinel.
C3_Witness ==
    /\ Returned("submit_exam", "ok")
    /\ \E i, j \in PairRows(answer, RequestKey) :
          /\ answer[i].selected_answer = Unanswered
          /\ answer[i].question_id \notin DOMAIN request.answers
          /\ answer[j].question_id \in DOMAIN request.answers
          /\ answer[j].selected_answer # Unanswered

C6_NoActiveAttempt ==
    [][\A k \in Keys :
          (Handles("submit_exam", k) /\ Get(question_ids, k[1], <<>>) = <<>>)
          => /\ response'.status = "error"
             /\ answer' = answer
             /\ start_time' = start_time
             /\ mode' = mode
             /\ question_ids' = question_ids]_vars

\* A refused submission for an attempt that was started but never loaded.
C6_Witness ==
    /\ Returned("submit_exam", "error")
    /\ RequestKey \in DOMAIN start_time
    /\ RequestKey \in DOMAIN mode

TicksLeft ==
    exam[request.exam_id].duration * SecondsPerMinute * TicksPerSecond
        - (clock - start_time[RequestKey])

\* C8: start returns no remaining time in study mode; in exam mode it
\* returns max(0, duration * 60 - (now - start_timestamp)) in whole seconds,
\* never negative, and not more than the call before returned for the same
\* attempt.
C8_RemainingTime ==
    /\ [](Returned("start_exam", "ok") =>
            /\ response.mode = "study" => response.remaining_seconds = None
            /\ response.mode = "exam" =>
                  /\ response.remaining_seconds # None
                  /\ LET r == response.remaining_seconds[1]
                     IN  /\ r >= 0
                         /\ TicksLeft <= 0 => r = 0
                         /\ TicksLeft > 0 =>
                               /\ r * TicksPerSecond >= TicksLeft
                               /\ (r - 1) * TicksPerSecond < TicksLeft)
    /\ [][(/\ Returned("start_exam", "ok")
           /\ response.mode = "exam"
           /\ Handles("start_exam", RequestKey)
           /\ response'.status = "ok"
           /\ response'.mode = "exam")
          => response'.remaining_seconds[1] <= response.remaining_seconds[1]]_vars

\* A start call made after the deadline.
C8_Witness ==
    /\ Returned("start_exam", "ok")
    /\ response.mode = "exam"
    /\ TicksLeft < 0
    /\ response.remaining_seconds = Some(0)

\* C9: the verdict is pass exactly when score >= max * pass_rate, equality
\* included (pass_rate is the percentage over 100).
C9_PassIffThresholdReached ==
    probe.verdict # None =>
        (probe.verdict[1] <=> probe.score * 100 >= probe.total * probe.pass_rate)

\* C10: for the Answer rows stored for a (student, exam), result retrieval
\* reports max = the number of those rows and score = the number of rows
\* whose answer is not the sentinel and equals the owning question's correct
\* answer after trimming, ignoring case.
C10_ResultCounts ==
    (request.op = "result" /\ PairRows(answer, RequestKey) # {})
    => LET rows == PairRows(answer, RequestKey)
           right == {i \in rows :
                       /\ answer[i].question_id \in DOMAIN question
                       /\ answer[i].selected_answer # Unanswered
                       /\ lower(strip(answer[i].selected_answer)) =
                             lower(strip(question[answer[i].question_id].correct_answer))}
       IN  /\ response.status = "ok"
           /\ response.max_score = Cardinality(rows)
           /\ response.total = Cardinality(right)

C12_NoUnhandledFailure ==
    response.status \in {"none", "ok", "error", "redirect", "400", "404"}

\* C13: when two exam-mode submissions for the same (exam, student) are
\* handled at the same time, the Answer rows of the pair are in the end the
\* rows of exactly one of them: not none, not the rows of both, not two rows
\* for one question.
C13_LastWriteWins ==
    (\A i \in Txns : txn.isolation # "none" /\ txn.req[i].pc = "done")
    => LET rows == SelectSeq(answer, LAMBDA r : /\ r.student_name = RaceName
                                                /\ r.exam_id = RaceExam)
       IN  \E i \in Txns :
              rows = NewRows(RaceName, RaceExam, txn.question_ids,
                             txn.req[i].answers)

\* line 134: the choices of a stored question, as a set
ChoiceSet(choices) == {c \in Range(Split(choices, "|")) : strip(c) # <<>>}

\* C14: ingesting the export of a question bank yields, for every question,
\* the same question text, the same set of choices and the same correct
\* answer as the original.
C14_RoundTrip ==
    csv.stage = "ingested" =>
        /\ Len(csv.ingested) = Len(csv.bank)
        /\ \A i \in 1..Len(csv.bank) :
              /\ csv.ingested[i].question_text = csv.bank[i].question_text
              /\ ChoiceSet(csv.ingested[i].choices) = ChoiceSet(csv.bank[i].choices)
              /\ csv.ingested[i].correct_answer = csv.bank[i].correct_answer

\* C15: an exam-deletion request from a session that is not logged in as
\* administrator leaves the exams, the questions and the Answer rows
\* unchanged.
C15_DeletionNeedsAdmin ==
    [][(steps' = steps + 1 /\ request'.op = "delete_exam" /\ ~admin)
       => (exam' = exam /\ question' = question /\ answer' = answer)]_vars

\* C16: a question load or a submission by student A for exam E leaves
\* unchanged the question ids, the start time and the mode the session
\* holds for the attempt of another student B on exam E.
C16_KeyedPerStudent ==
    [][\A kA, kB \in Keys :
          (/\ kA[1] = kB[1]
           /\ kA[2] # kB[2]
           /\ kB \in DOMAIN start_time
           /\ kB \in DOMAIN mode
           /\ kB[1] \in DOMAIN question_ids
           /\ Handles("load_exam_questions", kA) \/ Handles("submit_exam", kA))
          => /\ kB \in DOMAIN start_time' /\ start_time'[kB] = start_time[kB]
             /\ kB \in DOMAIN mode' /\ mode'[kB] = mode[kB]
             /\ kB[1] \in DOMAIN question_ids'
             /\ question_ids'[kB[1]] = question_ids[kB[1]]]_vars

\* The last request was a submission that found an exam-mode attempt whose
\* deadline had passed: start would have returned remaining_seconds 0.
SubmittedLate ==
    /\ request.op = "submit_exam"
    /\ request.exam_id \in DOMAIN exam
    /\ request.found.mode = Some("exam")
    /\ request.found.start_time # None
    /\ remaining_seconds(exam[request.exam_id].duration, "exam",
                         request.found.start_time[1], clock) = Some(0)

\* C17: an exam-mode submission made after the deadline is accepted with
\* status ok and leaves the Answer rows a submission before the deadline
\* leaves: one row per question id the session held, with the submitted
\* value or the sentinel, and the session entries of the attempt removed.
C17_ExpiryIsAdvisory ==
    [][\A k \in Keys :
          (/\ Handles("submit_exam", k)
           /\ k[1] \in DOMAIN exam
           /\ k \in DOMAIN start_time
           /\ Get(mode, k, DefaultMode) = "exam"
           /\ Get(question_ids, k[1], <<>>) # <<>>
           /\ remaining_seconds(exam[k[1]].duration, "exam",
                                start_time[k], clock) = Some(0))
          => /\ response'.status = "ok"
             /\ SelectSeq(answer', LAMBDA r : <<r.exam_id, r.student_name>> = k)
                   = NewRows(k[2], k[1], question_ids[k[1]], request'.answers)
             /\ k \notin DOMAIN start_time'
             /\ k \notin DOMAIN mode'
             /\ k[1] \notin DOMAIN question_ids']_vars

\* A late exam-mode submission that was accepted and stored its rows.
C17_Witness ==
    /\ SubmittedLate
    /\ response.status = "ok"
    /\ PairRows(answer, RequestKey) # {}

\* A string without its leading and trailing spaces.
Trimmed(s) ==
    LET inked == {i \in 1..Len(s) : s[i] # " "}
    IN  IF inked = {} THEN <<>>
        ELSE SubSeq(s, CHOOSE i \in inked : \A j \in inked : i <= j,
                       CHOOSE i \in inked : \A j \in inked : j <= i)

\* Two strings that differ at most in the case of their letters.
SameIgnoringCase(s, t) ==
    /\ Len(s) = Len(t)
    /\ \A i \in 1..Len(s) :
          s[i] = t[i] \/ {s[i], t[i]} \in {{"a", "A"}, {"b", "B"}}

\* C18: the live check changes neither the session nor the tables; it
\* returns 400 (Mismatch) when the exam or the question does not exist or
\* the question belongs to another exam; otherwise it reports correct
\* exactly when the trimmed submitted string equals the trimmed correct
\* answer ignoring case, and returns the correct answer only when the
\* submission is incorrect.
C18_LiveCheck ==
    [][(steps' = steps + 1 /\ request'.op = "check_answer")
       => LET e == request'.exam_id
              q == request'.question_id
              selected == request'.selected_answer
          IN  /\ UNCHANGED <<exam, question, answer, mode, start_time,
                             question_ids, admin>>
              /\ IF e \notin DOMAIN exam \/ q \notin DOMAIN question
                 THEN response'.status = "400"
                 ELSE IF question[q].exam_id # e
                 THEN response'.status = "400"
                 ELSE /\ response'.status = "ok"
                      /\ response'.is_correct <=>
                            SameIgnoringCase(Trimmed(selected),
                                             Trimmed(question[q].correct_answer))
                      /\ response'.correct_answer =
                            IF response'.is_correct
                            THEN None
                            ELSE Some(Trimmed(question[q].correct_answer))]_vars

\* A submission judged correct although it differs from the stored answer
\* in case or in surrounding spaces.
C18_Witness ==
    /\ Returned("check_answer", "ok")
    /\ response.is_correct
    /\ response.correct_answer = None
    /\ request.selected_answer # question[request.question_id].correct_answer

\* C19: a submission for (exam, student) that changes the Answer table is
\* made while the session holds a start time and a mode recorded by a start
\* call for that same (exam, student).
C19_RowsOnlyForStartedAttempt ==
    [][\A k \in Keys :
          (Handles("submit_exam", k) /\ answer' # answer)
          => (k \in DOMAIN start_time /\ k \in DOMAIN mode)]_vars

\* C20: every stored Answer row names an exam that exists and a question
\* that exists and belongs to that exam.
C20_ReferentialIntegrity ==
    \A i \in 1..Len(answer) :
        /\ answer[i].exam_id \in DOMAIN exam
        /\ answer[i].question_id \in DOMAIN question
        /\ question[answer[i].question_id].exam_id = answer[i].exam_id

====
